---- MODULE Spec2Model ----
(***************************************************************************)
(* Model of plasmactl-chassis: the chassis document (an order-preserving   *)
(* YAML node tree plus the parsed data map kept beside it), the two        *)
(* registries that reference chassis paths (layer playbooks, node files),  *)
(* and the chassis:add / chassis:remove / chassis:rename actions.          *)
(*                                                                         *)
(* Strings are sequences of one-character strings, so that splitting on    *)
(* ".", joining and prefix tests are computed as the Go code computes them.*)
(***************************************************************************)
EXTENDS Integers, Sequences, FiniteSets, TLC

\* ------------------------------------------------------------------------
\* Strings
\* ------------------------------------------------------------------------
Dot == "."

HasPrefix(s, p) == Len(s) >= Len(p) /\ SubSeq(s, 1, Len(p)) = p

DotIndex(s) ==
    IF \E i \in 1..Len(s) : s[i] = Dot
    THEN CHOOSE i \in 1..Len(s) : s[i] = Dot /\ \A j \in 1..(i - 1) : s[j] /= Dot
    ELSE 0

\* strings.Split(s, "."): keeps empty parts; Split("") is one empty part.
RECURSIVE Split(_)
Split(s) ==
    IF DotIndex(s) = 0 THEN << s >>
    ELSE << SubSeq(s, 1, DotIndex(s) - 1) >> \o Split(SubSeq(s, DotIndex(s) + 1, Len(s)))

\* prefix + "." + name
Dotted(prefix, name) == prefix \o << Dot >> \o name

RECURSIVE Join(_)
Join(parts) ==
    IF Len(parts) = 0 THEN << >>
    ELSE IF Len(parts) = 1 THEN parts[1]
    ELSE Dotted(parts[1], Join(Tail(parts)))

Contains(list, x) == \E i \in 1..Len(list) : list[i] = x

\* RemoveAt that is off by one
RemoveAtNext(list, i) == SubSeq(list, 1, i) \o SubSeq(list, i + 2, Len(list))

RemoveAt(list, i) == SubSeq(list, 1, i - 1) \o SubSeq(list, i + 1, Len(list))

\* ------------------------------------------------------------------------
\* yaml.Node
\* ------------------------------------------------------------------------
ScalarNode == "Scalar"
MappingNode == "Mapping"
SequenceNode == "Sequence"

YNode(kind, tag, value, content) ==
    [Kind |-> kind, Tag |-> tag, Value |-> value, Content |-> content]

StrScalar(value) == YNode(ScalarNode, "!!str", value, << >>)
IntScalar(value) == YNode(ScalarNode, "!!int", value, << >>)
NullScalar == YNode(ScalarNode, "!!null", << >>, << >>)
NewMapping == YNode(MappingNode, "", << >>, << >>)
NewSequence == YNode(SequenceNode, "", << >>, << >>)
MapOf(content) == YNode(MappingNode, "!!map", << >>, content)
SeqOf(content) == YNode(SequenceNode, "!!seq", << >>, content)

\* indices of the keys of a mapping node's Content (key, value, key, value, ...)
KeyIdx(n) == { i \in 1..Len(n.Content) : i % 2 = 1 }

\* first key index holding `key`, 0 if none
MapKeyIndex(n, key) ==
    IF \E i \in KeyIdx(n) : n.Content[i].Value = key
    THEN CHOOSE i \in KeyIdx(n) :
            /\ n.Content[i].Value = key
            /\ \A j \in KeyIdx(n) : j < i => n.Content[j].Value /= key
    ELSE 0

\* ------------------------------------------------------------------------
\* Flatten and the read queries (pkg/chassis)
\* The document `doc` is the Content of the yaml document node: empty for an
\* empty file, otherwise one root node.
\* ------------------------------------------------------------------------
RECURSIVE flattenSequence(_, _)
RECURSIVE flattenItems(_, _, _)
RECURSIVE flattenItemKeys(_, _, _)

flattenItemKeys(prefix, item, k) ==
    IF k > Len(item.Content) THEN << >>
    ELSE LET newPrefix == Dotted(prefix, item.Content[k].Value)
             value == item.Content[k + 1]
         IN << newPrefix >>
            \o (IF value.Kind = SequenceNode THEN flattenSequence(newPrefix, value) ELSE << >>)
            \o flattenItemKeys(prefix, item, k + 2)

flattenItems(prefix, node, i) ==
    IF i > Len(node.Content) THEN << >>
    ELSE LET item == node.Content[i]
         IN (CASE item.Kind = ScalarNode -> << Dotted(prefix, item.Value) >>
               [] item.Kind = MappingNode -> flattenItemKeys(prefix, item, 1)
               [] OTHER -> << >>)
            \o flattenItems(prefix, node, i + 1)

flattenSequence(prefix, node) == flattenItems(prefix, node, 1)

RECURSIVE flattenLayers(_, _, _)
flattenLayers(rootKey, rootValue, j) ==
    IF j > Len(rootValue.Content) THEN << >>
    ELSE LET layerPrefix == Dotted(rootKey, rootValue.Content[j].Value)
             layerValue == rootValue.Content[j + 1]
         IN << layerPrefix >>
            \o (IF layerValue.Kind = SequenceNode
                THEN flattenSequence(layerPrefix, layerValue) ELSE << >>)
            \o flattenLayers(rootKey, rootValue, j + 2)

RECURSIVE flattenRoots(_, _)
flattenRoots(rootNode, i) ==
    IF i > Len(rootNode.Content) THEN << >>
    ELSE LET rootKey == rootNode.Content[i].Value
             rootValue == rootNode.Content[i + 1]
         IN << rootKey >>
            \o (IF rootValue.Kind = MappingNode
                THEN flattenLayers(rootKey, rootValue, 1) ELSE << >>)
            \o flattenRoots(rootNode, i + 2)

Flatten(d) ==
    IF Len(d) = 0 THEN << >>
    ELSE IF d[1].Kind /= MappingNode THEN << >>
    ELSE flattenRoots(d[1], 1)

Exists(d, chassisPath) == Contains(Flatten(d), chassisPath)

\* ------------------------------------------------------------------------
\* The parsed data map (map[string]map[string][]interface{}) that Load keeps
\* beside the node tree.  A decoded value is a record [t, s, m, l]:
\* t = "str" (string s), "raw" (a non-string scalar: int, bool, ...),
\* "nil", "map" (m: key -> value) or "list" (l: sequence of values).
\* ------------------------------------------------------------------------
NoMap == [k \in {} |-> 0]
DStr(s) == [t |-> "str", s |-> s, m |-> NoMap, l |-> << >>]
DRaw(s) == [t |-> "raw", s |-> s, m |-> NoMap, l |-> << >>]
DNil == [t |-> "nil", s |-> << >>, m |-> NoMap, l |-> << >>]
DMap(m) == [t |-> "map", s |-> << >>, m |-> m, l |-> << >>]
DList(l) == [t |-> "list", s |-> << >>, m |-> NoMap, l |-> l]

RECURSIVE Decode(_)
Decode(n) ==
    CASE n.Kind = ScalarNode ->
            (IF n.Tag = "!!str" THEN DStr(n.Value)
             ELSE IF n.Tag = "!!null" THEN DNil
             ELSE DRaw(n.Value))
      [] n.Kind = MappingNode ->
            DMap([k \in { n.Content[i].Value : i \in KeyIdx(n) } |->
                    Decode(n.Content[MapKeyIndex(n, k) + 1])])
      [] OTHER -> DList([i \in 1..Len(n.Content) |-> Decode(n.Content[i])])

\* yaml.Unmarshal into map[string]map[string][]interface{} succeeds: mappings
\* two levels deep (or null), sequences (or null) below, no duplicate keys,
\* every scalar decodable under its tag.
NoDupKeys(n) ==
    \A i, j \in KeyIdx(n) : n.Content[i].Value = n.Content[j].Value => i = j

IsNull(n) == n.Kind = ScalarNode /\ n.Tag = "!!null"

\* a scalar tagged !!int decodes only if its value is a number
IsNumber(value) == Len(value) > 0 /\ \A i \in 1..Len(value) : value[i] \in { "0", "1" }

RECURSIVE GenericOk(_)
GenericOk(n) ==
    /\ n.Kind = MappingNode => NoDupKeys(n)
    /\ (n.Kind = ScalarNode /\ n.Tag = "!!int") => IsNumber(n.Value)
    /\ \A i \in 1..Len(n.Content) : GenericOk(n.Content[i])

Loadable(d) ==
    \/ Len(d) = 0
    \/ IsNull(d[1])
    \/ /\ d[1].Kind = MappingNode
       /\ NoDupKeys(d[1])
       /\ \A i \in KeyIdx(d[1]) :
            LET rv == d[1].Content[i + 1]
            IN \/ IsNull(rv)
               \/ /\ rv.Kind = MappingNode
                  /\ NoDupKeys(rv)
                  /\ \A j \in KeyIdx(rv) :
                        LET lv == rv.Content[j + 1]
                        IN IsNull(lv) \/ (lv.Kind = SequenceNode /\ GenericOk(lv))

\* the data field of a freshly loaded Chassis (a nil map for an empty file)
ParseData(d) ==
    IF Len(d) = 0 \/ d[1].Kind /= MappingNode THEN DNil ELSE Decode(d[1])

\* d[root][layer] as Go reads it: the nil slice when a level is missing
DataLayer(data, root, layer) ==
    IF /\ data.t = "map" /\ root \in DOMAIN data.m
       /\ data.m[root].t = "map" /\ layer \in DOMAIN data.m[root].m
       /\ data.m[root].m[layer].t = "list"
    THEN data.m[root].m[layer].l
    ELSE << >>

MapWithout(m, key) == [k \in (DOMAIN m) \ {key} |-> m[k]]

RECURSIVE removeChassisPath(_, _)
RECURSIVE removeChassisFrom(_, _, _)

\* the loop of removeChassisPath from item i on: [list, removed]
removeChassisFrom(chassis, path, i) ==
    IF i > Len(chassis) THEN [list |-> chassis, removed |-> FALSE]
    ELSE
      LET name == path[1]
          remaining == Tail(path)
          c == chassis[i]
      IN IF c.t = "str" /\ c.s = name /\ Len(remaining) = 0
         THEN [list |-> RemoveAt(chassis, i), removed |-> TRUE]
         ELSE IF c.t = "map" /\ name \in DOMAIN c.m
         THEN IF Len(remaining) = 0
              THEN IF Cardinality(DOMAIN c.m) = 1
                   THEN [list |-> RemoveAt(chassis, i), removed |-> TRUE]
                   ELSE [list |-> [chassis EXCEPT ![i] = DMap(MapWithout(c.m, name))],
                         removed |-> TRUE]
              ELSE IF c.m[name].t = "list"
                   THEN LET sub == removeChassisPath(c.m[name].l, remaining)
                        IN IF sub.removed
                           THEN [list |-> [chassis EXCEPT ![i] =
                                    DMap([c.m EXCEPT ![name] = DList(sub.list)])],
                                 removed |-> TRUE]
                           ELSE removeChassisFrom(chassis, path, i + 1)
                   ELSE removeChassisFrom(chassis, path, i + 1)
         ELSE removeChassisFrom(chassis, path, i + 1)

removeChassisPath(chassis, path) ==
    IF Len(path) = 0 THEN [list |-> chassis, removed |-> FALSE]
    ELSE removeChassisFrom(chassis, path, 1)

\* Remove on the parsed data (nil data is left alone)
RemoveData(data, parts) ==
    IF data.t /= "map" THEN data
    ELSE IF Len(parts) = 1 THEN DMap(MapWithout(data.m, parts[1]))
    ELSE IF Len(parts) = 2
    THEN IF parts[1] \in DOMAIN data.m /\ data.m[parts[1]].t = "map"
         THEN DMap([data.m EXCEPT ![parts[1]] = DMap(MapWithout(@.m, parts[2]))])
         ELSE data
    ELSE DMap([data.m EXCEPT ![parts[1]] =
                  DMap([k \in DOMAIN @.m \cup { parts[2] } |->
                          IF k = parts[2]
                          THEN DList(removeChassisPath(DataLayer(data, parts[1], parts[2]),
                                                       SubSeq(parts, 3, Len(parts))).list)
                          ELSE @.m[k]])])

RECURSIVE addChassisPath(_, _)
RECURSIVE addChassisFrom(_, _, _)

\* the second loop of addChassisPath from item i on
addChassisFrom(chassis, path, i) ==
    LET name == path[1]
        remaining == Tail(path)
        newMap == DMap([k \in { name } |-> DList(addChassisPath(<< >>, remaining))])
    IN IF i > Len(chassis) THEN Append(chassis, newMap)
       ELSE LET c == chassis[i]
            IN IF c.t = "map" /\ name \in DOMAIN c.m /\ c.m[name].t = "list"
               THEN [chassis EXCEPT ![i] =
                        DMap([c.m EXCEPT ![name] =
                                 DList(addChassisPath(c.m[name].l, remaining))])]
               ELSE IF c.t = "str" /\ c.s = name
               THEN [chassis EXCEPT ![i] = newMap]
               ELSE addChassisFrom(chassis, path, i + 1)

addChassisPath(chassis, path) ==
    IF Len(path) = 0 THEN chassis
    ELSE IF Len(path) = 1
    THEN IF \E i \in 1..Len(chassis) : chassis[i].t = "str" /\ chassis[i].s = path[1]
         THEN chassis
         ELSE Append(chassis, DStr(path[1]))
    ELSE addChassisFrom(chassis, path, 1)

\* Add on the parsed data: nothing for a path of one segment
AddData(data, parts) ==
    LET d == IF data.t = "map" THEN data.m ELSE NoMap
        old == IF parts[1] \in DOMAIN d /\ d[parts[1]].t = "map" THEN d[parts[1]].m
               ELSE NoMap
        layer == IF Len(parts) > 2
                 THEN DList(addChassisPath(DataLayer(DMap(d), parts[1], parts[2]),
                                           SubSeq(parts, 3, Len(parts))))
                 ELSE IF parts[2] \in DOMAIN old /\ old[parts[2]].t = "list"
                 THEN old[parts[2]]
                 ELSE DList(<< >>)
    IN IF Len(parts) < 2 THEN DMap(d)
       ELSE DMap([r \in DOMAIN d \cup { parts[1] } |->
                    IF r = parts[1]
                    THEN DMap([l \in DOMAIN old \cup { parts[2] } |->
                                 IF l = parts[2] THEN layer ELSE old[l]])
                    ELSE d[r]])

\* m with the key old renamed to new (an entry under new is overwritten)
MapRenamed(m, old, new) ==
    [k \in ((DOMAIN m) \ { old }) \cup { new } |-> IF k = new THEN m[old] ELSE m[k]]

RECURSIVE renameInChassisData(_, _, _, _)
RECURSIVE renameInChassisFrom(_, _, _, _, _)

\* the loop of renameInChassisData from item i on (diffIdx counts from 0)
renameInChassisFrom(chassis, oldPath, newPath, diffIdx, i) ==
    IF i > Len(chassis) THEN chassis
    ELSE
      LET target == oldPath[1]
          newName == newPath[1]
          v == chassis[i]
      IN IF v.t = "str" /\ v.s = target /\ diffIdx = 0
         THEN [chassis EXCEPT ![i] = DStr(newName)]
         ELSE IF v.t = "map" /\ target \in DOMAIN v.m /\ diffIdx = 0
         THEN [chassis EXCEPT ![i] = DMap(MapRenamed(v.m, target, newName))]
         ELSE IF v.t = "map" /\ target \in DOMAIN v.m /\ v.m[target].t = "list"
         THEN [chassis EXCEPT ![i] =
                  DMap([v.m EXCEPT ![target] =
                           DList(renameInChassisData(v.m[target].l, Tail(oldPath),
                                                     Tail(newPath), diffIdx - 1))])]
         ELSE renameInChassisFrom(chassis, oldPath, newPath, diffIdx, i + 1)

renameInChassisData(chassis, oldPath, newPath, diffIdx) ==
    IF Len(oldPath) = 0 \/ diffIdx < 0 THEN chassis
    ELSE renameInChassisFrom(chassis, oldPath, newPath, diffIdx, 1)

\* updateDataForRename (diffIdx counts from 0)
updateDataForRename(data, oldParts, newParts, diffIdx) ==
    IF data.t /= "map" THEN data
    ELSE IF diffIdx = 0
    THEN IF oldParts[1] \in DOMAIN data.m
         THEN DMap(MapRenamed(data.m, oldParts[1], newParts[1]))
         ELSE data
    ELSE IF oldParts[1] \notin DOMAIN data.m \/ data.m[oldParts[1]].t /= "map" THEN data
    ELSE IF diffIdx = 1
    THEN IF oldParts[2] \in DOMAIN data.m[oldParts[1]].m
         THEN DMap([data.m EXCEPT ![oldParts[1]] =
                       DMap(MapRenamed(@.m, oldParts[2], newParts[2]))])
         ELSE data
    ELSE IF oldParts[2] \in DOMAIN data.m[oldParts[1]].m
            /\ data.m[oldParts[1]].m[oldParts[2]].t = "list"
    THEN DMap([data.m EXCEPT ![oldParts[1]] =
                  DMap([@.m EXCEPT ![oldParts[2]] =
                           DList(renameInChassisData(@.l, SubSeq(oldParts, 3, Len(oldParts)),
                                                     SubSeq(newParts, 3, Len(newParts)),
                                                     diffIdx - 2))])])
    ELSE data

\* ------------------------------------------------------------------------
\* Chassis.Add on the node tree
\* ------------------------------------------------------------------------
\* the mapping node after findOrCreateMapKey(mapNode, key): a non-mapping node
\* is turned into an empty mapping, a missing key is appended with an empty
\* mapping as its value
findOrCreateMapKey(mapNode, key) ==
    LET m == IF mapNode.Kind /= MappingNode
             THEN [mapNode EXCEPT !.Kind = MappingNode, !.Content = << >>]
             ELSE mapNode
    IN IF MapKeyIndex(m, key) /= 0 THEN m
       ELSE [m EXCEPT !.Content = @ \o << StrScalar(key), NewMapping >>]

\* the value node findOrCreateMapKey returns, and its replacement
MapValue(mapNode, key) == mapNode.Content[MapKeyIndex(mapNode, key) + 1]
WithMapValue(mapNode, key, v) ==
    [mapNode EXCEPT !.Content[MapKeyIndex(mapNode, key) + 1] = v]

EnsureSequence(n) ==
    IF n.Kind /= SequenceNode THEN [n EXCEPT !.Kind = SequenceNode, !.Content = << >>] ELSE n

\* first sequence item that is a mapping holding key `name`, 0 if none
ItemWithKey(seqNode, name) ==
    LET hit(i) == /\ seqNode.Content[i].Kind = MappingNode
                  /\ MapKeyIndex(seqNode.Content[i], name) /= 0
    IN IF \E i \in 1..Len(seqNode.Content) : hit(i)
       THEN CHOOSE i \in 1..Len(seqNode.Content) :
                hit(i) /\ \A j \in 1..(i - 1) : ~hit(j)
       ELSE 0

\* first sequence item that is a scalar with value `name`, 0 if none
ScalarItem(seqNode, name) ==
    LET hit(i) == /\ seqNode.Content[i].Kind = ScalarNode
                  /\ seqNode.Content[i].Value = name
    IN IF \E i \in 1..Len(seqNode.Content) : hit(i)
       THEN CHOOSE i \in 1..Len(seqNode.Content) :
                hit(i) /\ \A j \in 1..(i - 1) : ~hit(j)
       ELSE 0

\* addPathToSequence that forgets to nest: the first name is appended as a
\* bare scalar and the rest of the path is dropped
addPathToSequenceFlat(seqNode, path) ==
    IF Len(path) = 0 THEN seqNode
    ELSE [seqNode EXCEPT !.Content = @ \o << StrScalar(path[1]) >>]

RECURSIVE addPathToSequence(_, _)
addPathToSequence(seqNode, path) ==
    IF Len(path) = 0 THEN seqNode
    ELSE
      LET name == path[1]
          remaining == Tail(path)
          mi == ItemWithKey(seqNode, name)
          si == ScalarItem(seqNode, name)
          group == YNode(MappingNode, "", << >>,
                         << StrScalar(name), addPathToSequence(NewSequence, remaining) >>)
      IN IF Len(remaining) = 0
         THEN IF si /= 0 THEN seqNode
              ELSE [seqNode EXCEPT !.Content = @ \o << StrScalar(name) >>]
         ELSE IF mi /= 0
         THEN LET item == seqNode.Content[mi]
                  valueNode == EnsureSequence(MapValue(item, name))
              IN [seqNode EXCEPT !.Content[mi] =
                     WithMapValue(item, name, addPathToSequence(valueNode, remaining))]
         ELSE IF si /= 0
         THEN [seqNode EXCEPT !.Content[si] = group]
         ELSE [seqNode EXCEPT !.Content = @ \o << group >>]

\* the root mapping after the node-tree part of Add
AddToRoot(rootNode, parts) ==
    LET r1 == findOrCreateMapKey(rootNode, parts[1])
    IN IF Len(parts) = 1 THEN r1
       ELSE LET rv == findOrCreateMapKey(MapValue(r1, parts[1]), parts[2])
                lv == EnsureSequence(MapValue(rv, parts[2]))
                lv2 == IF Len(parts) = 2 THEN lv
                       ELSE addPathToSequence(lv, SubSeq(parts, 3, Len(parts)))
            IN WithMapValue(r1, parts[1], WithMapValue(rv, parts[2], lv2))

\* pkgchassis.ValidatePath: a non-empty path of non-empty segments
ValidatePath(chassisPath) ==
    /\ Len(chassisPath) > 0
    /\ \A i \in 1..Len(Split(chassisPath)) : Len(Split(chassisPath)[i]) > 0

\* Add without the existence check
AddUnchecked(d, chassisPath) ==
    IF ~ValidatePath(chassisPath) THEN [err |-> "InvalidPath", doc |-> d]
    ELSE [err |-> "",
          doc |-> << AddToRoot(IF Len(d) = 0 THEN NewMapping ELSE d[1],
                               Split(chassisPath)) >>]

\* Chassis.Add: [err, doc]
Add(d, chassisPath) ==
    IF ~ValidatePath(chassisPath) THEN [err |-> "InvalidPath", doc |-> d]
    ELSE IF Exists(d, chassisPath) THEN [err |-> "AlreadyExists", doc |-> d]
    ELSE [err |-> "",
          doc |-> << AddToRoot(IF Len(d) = 0 THEN NewMapping ELSE d[1],
                               Split(chassisPath)) >>]

\* ------------------------------------------------------------------------
\* Chassis.Remove
\* ------------------------------------------------------------------------
RemoveKey(mapNode, key) ==
    LET i == MapKeyIndex(mapNode, key)
    IN IF i = 0 THEN mapNode
       ELSE [mapNode EXCEPT !.Content = SubSeq(@, 1, i - 1) \o SubSeq(@, i + 2, Len(@))]

RECURSIVE removePathFromSequence(_, _)
RECURSIVE removePathFromItems(_, _, _)

\* first key index j of item with key `name` and a sequence value, 0 if none
KeyWithSequence(item, name) ==
    LET hit(j) == /\ item.Content[j].Value = name
                  /\ item.Content[j + 1].Kind = SequenceNode
    IN IF \E j \in KeyIdx(item) : hit(j)
       THEN CHOOSE j \in KeyIdx(item) : hit(j) /\ \A k \in KeyIdx(item) : k < j => ~hit(k)
       ELSE 0

\* the loop of removePathFromSequence deleting the key of a group and never its
\* item: a group that was alone in its item leaves an empty mapping behind
RECURSIVE removePathFromItemsKeyOnly(_, _, _)
removePathFromItemsKeyOnly(seqNode, path, i) ==
    IF i > Len(seqNode.Content) THEN seqNode
    ELSE
      LET name == path[1]
          remaining == Tail(path)
          item == seqNode.Content[i]
      IN IF Len(remaining) = 0
         THEN IF item.Kind = ScalarNode /\ item.Value = name
              THEN [seqNode EXCEPT !.Content = RemoveAt(@, i)]
              ELSE IF item.Kind = MappingNode /\ MapKeyIndex(item, name) /= 0
              THEN [seqNode EXCEPT !.Content[i] = RemoveKey(item, name)]
              ELSE removePathFromItemsKeyOnly(seqNode, path, i + 1)
         ELSE IF item.Kind = MappingNode /\ KeyWithSequence(item, name) /= 0
              THEN LET j == KeyWithSequence(item, name)
                   IN [seqNode EXCEPT !.Content[i].Content[j + 1] =
                          removePathFromItemsKeyOnly(item.Content[j + 1], remaining, 1)]
              ELSE removePathFromItemsKeyOnly(seqNode, path, i + 1)

\* the loop of removePathFromSequence from item i on: the sequence node after it
removePathFromItems(seqNode, path, i) ==
    IF i > Len(seqNode.Content) THEN seqNode
    ELSE
      LET name == path[1]
          remaining == Tail(path)
          item == seqNode.Content[i]
      IN IF Len(remaining) = 0
         THEN IF item.Kind = ScalarNode /\ item.Value = name
              THEN [seqNode EXCEPT !.Content = RemoveAt(@, i)]
              ELSE IF item.Kind = MappingNode /\ MapKeyIndex(item, name) /= 0
              THEN IF Len(item.Content) = 2
                   THEN [seqNode EXCEPT !.Content = RemoveAt(@, i)]
                   ELSE [seqNode EXCEPT !.Content[i] = RemoveKey(item, name)]
              ELSE removePathFromItems(seqNode, path, i + 1)
         ELSE IF item.Kind = MappingNode /\ KeyWithSequence(item, name) /= 0
              THEN LET j == KeyWithSequence(item, name)
                   IN [seqNode EXCEPT !.Content[i].Content[j + 1] =
                          removePathFromSequence(item.Content[j + 1], remaining)]
              ELSE removePathFromItems(seqNode, path, i + 1)

removePathFromSequence(seqNode, path) ==
    IF Len(path) = 0 THEN seqNode ELSE removePathFromItems(seqNode, path, 1)

\* the root mapping after the node-tree part of Remove
RemoveFromRoot(rootNode, parts) ==
    IF rootNode.Kind /= MappingNode THEN rootNode
    ELSE IF Len(parts) = 1 THEN RemoveKey(rootNode, parts[1])
    ELSE IF MapKeyIndex(rootNode, parts[1]) = 0 THEN rootNode
    ELSE LET rv == MapValue(rootNode, parts[1])
         IN IF rv.Kind /= MappingNode THEN rootNode
            ELSE IF Len(parts) = 2
            THEN WithMapValue(rootNode, parts[1], RemoveKey(rv, parts[2]))
            ELSE IF MapKeyIndex(rv, parts[2]) = 0 THEN rootNode
            ELSE LET lv == MapValue(rv, parts[2])
                 IN IF lv.Kind /= SequenceNode THEN rootNode
                    ELSE WithMapValue(rootNode, parts[1],
                            WithMapValue(rv, parts[2],
                               removePathFromSequence(lv, SubSeq(parts, 3, Len(parts)))))

\* the error of the data-map part of Remove ("failed to remove chassis path")
RemoveDataFails(data, parts) ==
    /\ data.t = "map"
    /\ Len(parts) > 2
    /\ ~removeChassisPath(DataLayer(data, parts[1], parts[2]),
                          SubSeq(parts, 3, Len(parts))).removed

\* Chassis.Remove on a freshly loaded document: [err, doc]
Remove(d, chassisPath) ==
    IF Len(chassisPath) = 0 THEN [err |-> "InvalidPath", doc |-> d]
    ELSE IF ~Exists(d, chassisPath) THEN [err |-> "NotFound", doc |-> d]
    ELSE LET parts == Split(chassisPath)
             nd == IF Len(d) > 0 THEN << RemoveFromRoot(d[1], parts) >> ELSE d
         IN [err |-> IF RemoveDataFails(ParseData(d), parts) THEN "RemoveFailed" ELSE "",
             doc |-> nd]

\* ------------------------------------------------------------------------
\* Chassis.Rename
\* ------------------------------------------------------------------------
RECURSIVE renameInNode(_, _, _, _, _)
RECURSIVE renameInItems(_, _, _, _, _, _)

\* the loop over a sequence node's items from item i on (depth counts from 1)
renameInItems(node, oldParts, newParts, diffIdx, depth, i) ==
    IF i > Len(node.Content) THEN node
    ELSE
      LET target == oldParts[depth]
          newName == newParts[depth]
          item == node.Content[i]
      IN IF item.Kind = ScalarNode /\ item.Value = target
         THEN IF depth = diffIdx
              THEN [node EXCEPT !.Content[i].Value = newName]
              ELSE renameInItems(node, oldParts, newParts, diffIdx, depth, i + 1)
         ELSE IF item.Kind = MappingNode /\ MapKeyIndex(item, target) /= 0
         THEN LET j == MapKeyIndex(item, target)
              IN IF depth = diffIdx
                 THEN [node EXCEPT !.Content[i].Content[j].Value = newName]
                 ELSE [node EXCEPT !.Content[i].Content[j + 1] =
                          renameInNode(item.Content[j + 1], oldParts, newParts,
                                       diffIdx, depth + 1)]
         ELSE renameInItems(node, oldParts, newParts, diffIdx, depth, i + 1)

renameInNode(node, oldParts, newParts, diffIdx, depth) ==
    IF depth > Len(oldParts) THEN node
    ELSE CASE node.Kind = MappingNode ->
                LET i == MapKeyIndex(node, oldParts[depth])
                IN IF i = 0 THEN node
                   ELSE IF depth = diffIdx
                   THEN [node EXCEPT !.Content[i].Value = newParts[depth]]
                   ELSE [node EXCEPT !.Content[i + 1] =
                            renameInNode(node.Content[i + 1], oldParts, newParts,
                                         diffIdx, depth + 1)]
           [] node.Kind = SequenceNode ->
                renameInItems(node, oldParts, newParts, diffIdx, depth, 1)
           [] OTHER -> node

\* the positions at which the two part lists differ
DiffPositions(oldParts, newParts) ==
    { i \in 1..Len(oldParts) : oldParts[i] /= newParts[i] }

\* Chassis.Rename: [err, doc]
Rename(d, oldPath, newPath) ==
    LET oldParts == Split(oldPath)
        newParts == Split(newPath)
    IN IF Len(oldParts) /= Len(newParts) THEN [err |-> "DepthMismatch", doc |-> d]
       ELSE IF Cardinality(DiffPositions(oldParts, newParts)) > 1
       THEN [err |-> "AmbiguousRename", doc |-> d]
       ELSE IF DiffPositions(oldParts, newParts) = {}
       THEN [err |-> "IdenticalPath", doc |-> d]
       ELSE LET diffIdx == CHOOSE i \in DiffPositions(oldParts, newParts) : TRUE
            IN [err |-> "",
                doc |-> IF Len(d) = 0 THEN d
                        ELSE << renameInNode(d[1], oldParts, newParts, diffIdx, 1) >>]

\* ------------------------------------------------------------------------
\* Save / Load: the document as yaml.Marshal writes it and yaml.Unmarshal
\* reads it back (a collection without a tag gets the tag of its kind, a tag
\* that was set is written out; collections carry no value)
\* ------------------------------------------------------------------------
RECURSIVE Stored(_)
Stored(n) ==
    CASE n.Kind = MappingNode ->
            YNode(MappingNode, IF n.Tag = "" THEN "!!map" ELSE n.Tag, << >>,
                  [i \in 1..Len(n.Content) |-> Stored(n.Content[i])])
      [] n.Kind = SequenceNode ->
            YNode(SequenceNode, IF n.Tag = "" THEN "!!seq" ELSE n.Tag, << >>,
                  [i \in 1..Len(n.Content) |-> Stored(n.Content[i])])
      [] OTHER -> n

Save(d) == [i \in 1..Len(d) |-> Stored(d[i])]

\* a filter that takes every path starting with the prefix
FlattenWithPrefixLoose(d, prefix) ==
    IF Len(prefix) = 0 THEN Flatten(d)
    ELSE SelectSeq(Flatten(d), LAMBDA path : HasPrefix(path, prefix))

FlattenWithPrefix(d, prefix) ==
    IF Len(prefix) = 0 THEN Flatten(d)
    ELSE SelectSeq(Flatten(d),
                   LAMBDA path : path = prefix \/ HasPrefix(path, prefix \o << Dot >>))

\* Children that takes every descendant
ChildrenBelow(d, chassisPath) ==
    SelectSeq(Flatten(d), LAMBDA path : HasPrefix(path, chassisPath \o << Dot >>))

\* the paths with nothing but one more segment after chassisPath + "."
Children(d, chassisPath) ==
    LET prefix == chassisPath \o << Dot >>
    IN SelectSeq(Flatten(d),
                 LAMBDA path : /\ HasPrefix(path, prefix)
                               /\ ~Contains(SubSeq(path, Len(prefix) + 1, Len(path)), Dot))

\* strings.LastIndex(s, "."), counted from 1; 0 when there is no dot
LastDotIndex(s) ==
    IF \E i \in 1..Len(s) : s[i] = Dot
    THEN CHOOSE i \in 1..Len(s) : s[i] = Dot /\ \A j \in (i + 1)..Len(s) : s[j] /= Dot
    ELSE 0

\* a Parent that cuts at the first dot
ParentAtFirstDot(chassisPath) ==
    IF DotIndex(chassisPath) = 0 THEN << >>
    ELSE SubSeq(chassisPath, 1, DotIndex(chassisPath) - 1)

Parent(chassisPath) ==
    IF LastDotIndex(chassisPath) = 0 THEN << >>
    ELSE SubSeq(chassisPath, 1, LastDotIndex(chassisPath) - 1)

RECURSIVE Ancestors(_)
Ancestors(chassisPath) ==
    LET parent == Parent(chassisPath)
    IN IF parent = << >> THEN << >> ELSE << parent >> \o Ancestors(parent)

\* ------------------------------------------------------------------------
\* The attachment registry: the layer playbooks src/<layer>/<layer>.yaml in
\* directory order, each a list of plays [hosts, roles]; a role entry is its
\* name, the empty string for an entry that yields no role name.
\* The allocation registry: the node files inst/<platform>/nodes/<host>.yaml
\* in directory order, each [file, chassis].
\* ------------------------------------------------------------------------
\* c == chassisPath || strings.HasPrefix(c, chassisPath+".")
Matches(c, chassisPath) == c = chassisPath \/ HasPrefix(c, chassisPath \o << Dot >>)

RECURSIVE Concat(_)
Concat(lists) == IF Len(lists) = 0 THEN << >> ELSE lists[1] \o Concat(Tail(lists))

\* the attachments of one play
PlayAttachments(playbook, play, chassisPath) ==
    IF ~Matches(play.hosts, chassisPath) THEN << >>
    ELSE LET named == SelectSeq(play.roles, LAMBDA r : Len(r) > 0)
         IN [i \in 1..Len(named) |->
                [Component |-> named[i], Playbook |-> playbook, Chassis |-> play.hosts]]

LoadAttachments(pbs, chassisPath) ==
    Concat([b \in 1..Len(pbs) |->
              Concat([k \in 1..Len(pbs[b].plays) |->
                        PlayAttachments(pbs[b].file, pbs[b].plays[k], chassisPath)])])

\* a rewrite that takes any value starting with the old path for a reference
\* below it
RewrittenLoose(value, oldChassis, newChassis) ==
    IF HasPrefix(value, oldChassis)
    THEN newChassis \o SubSeq(value, Len(oldChassis) + 1, Len(value))
    ELSE value

\* the rewritten reference, both for a play's hosts and a node's chassis entry
Rewritten(value, oldChassis, newChassis) ==
    IF value = oldChassis THEN newChassis
    ELSE IF HasPrefix(value, oldChassis \o << Dot >>)
    THEN newChassis \o SubSeq(value, Len(oldChassis) + 1, Len(value))
    ELSE value

\* updateHostsInNode on a playbook: [updated, plays]
updateHostsInNode(plays, oldChassis, newChassis) ==
    [updated |-> \E k \in 1..Len(plays) : Matches(plays[k].hosts, oldChassis),
     plays |-> [k \in 1..Len(plays) |->
                  [plays[k] EXCEPT !.hosts = Rewritten(@, oldChassis, newChassis)]]]

\* UpdateAttachments without a directory error: [files, playbooks]
UpdateAttachments(pbs, oldChassis, newChassis) ==
    [files |-> LET hit == SelectSeq(pbs, LAMBDA b :
                              updateHostsInNode(b.plays, oldChassis, newChassis).updated)
               IN [i \in 1..Len(hit) |-> hit[i].file],
     playbooks |-> [b \in 1..Len(pbs) |->
                      [pbs[b] EXCEPT !.plays =
                          updateHostsInNode(@, oldChassis, newChassis).plays]]]

\* updateChassisInNode on a node file: [updated, chassis]
updateChassisInNode(chassis, oldChassis, newChassis) ==
    [updated |-> \E k \in 1..Len(chassis) : Matches(chassis[k], oldChassis),
     chassis |-> [k \in 1..Len(chassis) |-> Rewritten(chassis[k], oldChassis, newChassis)]]

\* UpdateAllocations without a directory error: [files, nodes]
UpdateAllocations(ns, oldChassis, newChassis) ==
    [files |-> LET hit == SelectSeq(ns, LAMBDA n :
                              updateChassisInNode(n.chassis, oldChassis, newChassis).updated)
               IN [i \in 1..Len(hit) |-> hit[i].file],
     nodes |-> [i \in 1..Len(ns) |->
                  [ns[i] EXCEPT !.chassis =
                      updateChassisInNode(@, oldChassis, newChassis).chassis]]]

\* NodesForChassis: the node files allocated to the path or below it
NodesForChassis(ns, chassisPath) ==
    SelectSeq(ns, LAMBDA n : \E k \in 1..Len(n.chassis) : Matches(n.chassis[k], chassisPath))

\* ------------------------------------------------------------------------
\* Documents and registries the sessions start from, and the arguments tried
\* ------------------------------------------------------------------------
sp == << "p" >>
sq == << "q" >>
sf == << "f" >>
sg == << "g" >>
sc == << "c" >>
scc == << "c", "c" >>
sd == << "d" >>
se == << "e" >>
sx == << "x" >>
sy == << "y" >>
s1 == << "1" >>

Group(name, children) == MapOf(<< StrScalar(name), SeqOf(children) >>)

\* an empty chassis.yaml
DocEmpty == << >>
\* p: {f: [c]}
DocSmall == << MapOf(<< StrScalar(sp), MapOf(<< StrScalar(sf), SeqOf(<< StrScalar(sc) >>) >>) >>) >>
\* p: {f: [c, {d: [x]}], g: []}
DocTree ==
    << MapOf(<< StrScalar(sp),
                MapOf(<< StrScalar(sf), SeqOf(<< StrScalar(sc), Group(sd, << StrScalar(sx) >>) >>),
                         StrScalar(sg), SeqOf(<< >>) >>) >>) >>
\* p: {f: [1, {c: null}, cc, {d: [x]}]}, q: null
DocRaw ==
    << MapOf(<< StrScalar(sp),
                MapOf(<< StrScalar(sf),
                         SeqOf(<< IntScalar(s1),
                                  MapOf(<< StrScalar(sc), NullScalar >>),
                                  StrScalar(scc),
                                  Group(sd, << StrScalar(sx) >>) >>) >>),
                StrScalar(sq), NullScalar >>) >>
\* p: {f: [{c: [x], d: [y]}]}
DocMulti ==
    << MapOf(<< StrScalar(sp),
                MapOf(<< StrScalar(sf),
                         SeqOf(<< MapOf(<< StrScalar(sc), SeqOf(<< StrScalar(sx) >>),
                                           StrScalar(sd), SeqOf(<< StrScalar(sy) >>) >>) >>) >>) >>) >>

Play(hosts, roles) == [hosts |-> hosts, roles |-> roles]
Playbook(file, plays) == [file |-> file, plays |-> plays]
NodeFile(file, chassis) == [file |-> file, chassis |-> chassis]

NoPlaybooks == << >>
NoNodes == << >>
\* one playbook attaching a role to p.f.c and an (empty) play to p.f.cc
PlaybooksF ==
    << Playbook("src/f/f.yaml",
                << Play(Join(<< sp, sf, sc >>), << << "r" >> >>),
                   Play(Join(<< sp, sf, scc >>), << >>) >>) >>
\* one playbook attaching a role below p.f.d, another whose only play selects
\* p.g and lists no roles
PlaybooksD ==
    << Playbook("src/f/f.yaml", << Play(Join(<< sp, sf, sd, sx >>), << << "r" >>, << >> >>) >>),
       Playbook("src/g/g.yaml", << Play(Join(<< sp, sg >>), << >>) >>) >>
\* a node allocated to the layer p.f, another to p.f.c.x
NodesF ==
    << NodeFile("inst/a/nodes/h1.yaml", << Join(<< sp, sf >>) >>),
       NodeFile("inst/a/nodes/h2.yaml", << Join(<< sp, sf, sc, sx >>) >>) >>
\* a node allocated to p.g
NodesG == << NodeFile("inst/a/nodes/h1.yaml", << Join(<< sp, sg >>) >>) >>

\* whether the directories src/ and inst/ can be listed
Readable == [src |-> TRUE, inst |-> TRUE]
SrcUnreadable == [src |-> FALSE, inst |-> TRUE]
InstUnreadable == [src |-> TRUE, inst |-> FALSE]

Scenario(d, pbs, ns, e) == [doc |-> d, playbooks |-> pbs, nodes |-> ns, env |-> e]

Scenarios ==
    { Scenario(DocEmpty, NoPlaybooks, NoNodes, Readable),
      Scenario(DocSmall, NoPlaybooks, NoNodes, Readable),
      Scenario(DocTree, NoPlaybooks, NodesG, Readable),
      Scenario(DocTree, PlaybooksD, NoNodes, Readable),
      Scenario(DocRaw, PlaybooksF, NoNodes, Readable),
      Scenario(DocMulti, PlaybooksF, NodesF, Readable),
      Scenario(DocMulti, PlaybooksF, NodesF, SrcUnreadable),
      Scenario(DocMulti, PlaybooksF, NodesF, InstUnreadable) }

\* the chassis paths given to add and remove, and as the old path of rename
Paths ==
    { << >>,
      sp, sq,
      Join(<< sp, sf >>), Join(<< sp, sg >>),
      Join(<< sp, sf, sc >>), Join(<< sp, sf, sd >>), Join(<< sp, sf, se >>),
      Join(<< sp, sf, s1 >>),
      Join(<< sp, sf, sc, sx >>), Join(<< sp, sf, sd, sx >>),
      Join(<< sp, sf, sc, sx, sy >>),
      Join(<< sp, << >>, sf >>) }

\* the new paths tried for rename(old, new): old itself, old with its last
\* or its last but one segment replaced (a sibling that exists among them),
\* old with both replaced, and old one segment longer
Replace(parts, i, seg) == [parts EXCEPT ![i] = seg]

NewPaths(oldPath) ==
    LET parts == Split(oldPath)
        n == Len(parts)
    IN { oldPath, Join(parts \o << se >>) }
       \cup { Join(Replace(parts, i, seg)) : i \in { n - 1, n } \cap (1..n),
                                              seg \in { sc, sd, se } }
       \cup (IF n > 1 THEN { Join(Replace(Replace(parts, n - 1, se), n, se)) } ELSE { })

\* ------------------------------------------------------------------------
\* State
\* ------------------------------------------------------------------------
\* how many invocations one explored session makes
MaxOps == 2

VARIABLES
    doc,        \* chassis.yaml: the Content of its document node
    playbooks,  \* the attachment registry
    nodes,      \* the allocation registry
    env,        \* whether src/ and inst/ can be listed
    last,       \* the last invocation: arguments, outcome, storage before it
    prev,       \* the invocation before it
    ops         \* invocations made

vars == << doc, playbooks, nodes, env, last, prev, ops >>

\* what is on disk
Storage == [doc |-> doc, playbooks |-> playbooks, nodes |-> nodes, env |-> env]

NoOp ==
    [op |-> "none", path |-> << >>, new |-> << >>, flag |-> FALSE,
     err |-> "", result |-> FALSE, pre |-> Scenario(<< >>, << >>, << >>, Readable),
     writes |-> << >>, warnings |-> << >>,
     allocations |-> << >>, attachments |-> << >>,
     AllocatedNodes |-> << >>, AttachedComponents |-> << >>,
     printedNodes |-> << >>, printedComponents |-> << >>,
     UpdatedAttachments |-> << >>, UpdatedAllocations |-> << >>,
     answer |-> << >>]

\* the record of an invocation on storage st, before it has done anything
Invoked(st, op, path, new, flag) ==
    [NoOp EXCEPT !.op = op, !.path = path, !.new = new, !.flag = flag, !.pre = st]

\* an invocation ends: the storage it leaves and its record
Ends(st, rec) == [st |-> st, rec |-> rec]
Fails(st, rec, err) == Ends(st, [rec EXCEPT !.err = err])

Init ==
    /\ \E s \in Scenarios :
          /\ doc = s.doc
          /\ playbooks = s.playbooks
          /\ nodes = s.nodes
          /\ env = s.env
    /\ last = NoOp
    /\ prev = NoOp
    /\ ops = 0

\* A session is followed through its plain invocations that change storage: one
\* that fails or only reports hands the next invocation the storage it started
\* from, and a forced add that writes leaves what the plain add leaves.
Continues == ops < MaxOps /\ (last.op = "none" \/ (Len(last.writes) > 0 /\ ~last.flag))

Finish(end) ==
    /\ doc' = end.st.doc
    /\ playbooks' = end.st.playbooks
    /\ nodes' = end.st.nodes
    /\ env' = end.st.env
    /\ last' = end.rec
    /\ prev' = last
    /\ ops' = ops + 1

\* ------------------------------------------------------------------------
\* chassis:add
\* ------------------------------------------------------------------------
\* an add that pays no attention to force
AddRunStrict(st, chassisPath, force) ==
    LET rec == Invoked(st, "add", chassisPath, << >>, force)
        r == Add(st.doc, chassisPath)
    IN IF ~Loadable(st.doc) THEN Fails(st, rec, "DocumentParse")
       ELSE IF r.err /= "" THEN Fails(st, rec, r.err)
       ELSE Ends([st EXCEPT !.doc = Save(r.doc)],
                 [rec EXCEPT !.result = TRUE, !.writes = << "chassis.yaml" >>])

AddRun(st, chassisPath, force) ==
    LET rec == Invoked(st, "add", chassisPath, << >>, force)
        r == Add(st.doc, chassisPath)
    IN IF ~Loadable(st.doc) THEN Fails(st, rec, "DocumentParse")
       ELSE IF force /\ Exists(st.doc, chassisPath)
       THEN Ends(st, [rec EXCEPT !.result = TRUE])
       ELSE IF r.err /= "" THEN Fails(st, rec, r.err)
       ELSE Ends([st EXCEPT !.doc = Save(r.doc)],
                 [rec EXCEPT !.result = TRUE, !.writes = << "chassis.yaml" >>])

AddExecute ==
    /\ Continues
    /\ \E chassisPath \in Paths, force \in BOOLEAN :
          Finish(AddRun(Storage, chassisPath, force))

\* ------------------------------------------------------------------------
\* chassis:remove
\* ------------------------------------------------------------------------
\* nodes.Allocations(chassis) of the allocation collaborator: the effective
\* chassis paths of every node file.  The distribution is the collaborator's:
\* a node's paths come back as recorded, or distributed to the paths of the
\* document at or below them.
Distributed(d, chassis) ==
    Concat([k \in 1..Len(chassis) |-> FlattenWithPrefix(d, chassis[k])])

Allocations(ns, d) ==
    { a \in [1..Len(ns) -> { ns[i].chassis : i \in 1..Len(ns) }
                            \cup { Distributed(d, ns[i].chassis) : i \in 1..Len(ns) }] :
        \A i \in 1..Len(ns) : a[i] \in { ns[i].chassis, Distributed(d, ns[i].chassis) } }

\* the node files with an effective path at or below the chassis path
Allocated(ns, allocations, chassisPath) ==
    LET hit == SelectSeq([i \in 1..Len(ns) |-> i],
                         LAMBDA i : \E k \in 1..Len(allocations[i]) :
                                        Matches(allocations[i][k], chassisPath))
    IN [k \in 1..Len(hit) |-> ns[hit[k]].file]

Components(attachments) == [k \in 1..Len(attachments) |-> attachments[k].Component]

\* a dry run that fails like a plain remove when it finds blockers
RemoveDryRunBlocked(st, rec, allocatedNodes, attachedComponents) ==
    IF Len(allocatedNodes) > 0
    THEN Fails(st, [rec EXCEPT !.printedNodes = allocatedNodes], "RemovalBlocked")
    ELSE IF Len(attachedComponents) > 0
    THEN Fails(st, [rec EXCEPT !.printedComponents = attachedComponents],
               "RemovalBlocked")
    ELSE Ends(st, [rec EXCEPT !.result = TRUE])

\* the dry-run branch: report both sets, change nothing
RemoveDryRun(st, rec, allocatedNodes, attachedComponents) ==
    Ends(st, [rec EXCEPT !.result = TRUE,
                         !.AllocatedNodes = allocatedNodes,
                         !.AttachedComponents = attachedComponents,
                         !.printedNodes = allocatedNodes,
                         !.printedComponents = attachedComponents])

\* Remove and Save done before the blocker checks
RemoveCheckedLate(st, rec, allocatedNodes, attachedComponents) ==
    LET r == Remove(st.doc, rec.path)
        saved == IF r.err = "" THEN [st EXCEPT !.doc = Save(r.doc)] ELSE st
    IN IF Len(allocatedNodes) > 0
       THEN Fails(saved, [rec EXCEPT !.printedNodes = allocatedNodes], "RemovalBlocked")
       ELSE IF Len(attachedComponents) > 0
       THEN Fails(saved, [rec EXCEPT !.printedComponents = attachedComponents],
                  "RemovalBlocked")
       ELSE IF r.err /= "" THEN Fails(st, rec, r.err)
       ELSE Ends(saved, [rec EXCEPT !.result = TRUE, !.writes = << "chassis.yaml" >>])

\* the blocker checks, then Remove and Save
RemoveChecked(st, rec, allocatedNodes, attachedComponents) ==
    LET r == Remove(st.doc, rec.path)
    IN IF Len(allocatedNodes) > 0
       THEN Fails(st, [rec EXCEPT !.printedNodes = allocatedNodes], "RemovalBlocked")
       ELSE IF Len(attachedComponents) > 0
       THEN Fails(st, [rec EXCEPT !.printedComponents = attachedComponents],
                  "RemovalBlocked")
       ELSE IF r.err /= "" THEN Fails(st, rec, r.err)
       ELSE Ends([st EXCEPT !.doc = Save(r.doc)],
                 [rec EXCEPT !.result = TRUE, !.writes = << "chassis.yaml" >>])

\* a remove that gives up when a registry cannot be read
RemoveRunAborting(st, chassisPath, dryRun, allocations) ==
    LET rec == Invoked(st, "remove", chassisPath, << >>, dryRun)
        attachments == LoadAttachments(st.playbooks, chassisPath)
        seen == [rec EXCEPT !.allocations = allocations, !.attachments = attachments]
        allocatedNodes == Allocated(st.nodes, allocations, chassisPath)
        attachedComponents == Components(attachments)
    IN IF ~Loadable(st.doc) THEN Fails(st, rec, "DocumentParse")
       ELSE IF ~Exists(st.doc, chassisPath) THEN Fails(st, rec, "NotFound")
       ELSE IF ~st.env.inst \/ ~st.env.src THEN Fails(st, rec, "RegistryRead")
       ELSE IF dryRun THEN RemoveDryRun(st, seen, allocatedNodes, attachedComponents)
       ELSE RemoveChecked(st, seen, allocatedNodes, attachedComponents)

\* allocations is the collaborator's answer when inst/ could be read; a
\* registry that cannot be read is logged and contributes nothing
RemoveRun(st, chassisPath, dryRun, allocations) ==
    LET rec == Invoked(st, "remove", chassisPath, << >>, dryRun)
        attachments == IF st.env.src THEN LoadAttachments(st.playbooks, chassisPath)
                       ELSE << >>
        seen == [rec EXCEPT !.allocations = allocations, !.attachments = attachments]
        allocatedNodes == Allocated(st.nodes, allocations, chassisPath)
        attachedComponents == Components(attachments)
    IN IF ~Loadable(st.doc) THEN Fails(st, rec, "DocumentParse")
       ELSE IF ~Exists(st.doc, chassisPath) THEN Fails(st, rec, "NotFound")
       ELSE IF dryRun THEN RemoveDryRun(st, seen, allocatedNodes, attachedComponents)
       ELSE RemoveChecked(st, seen, allocatedNodes, attachedComponents)

Unread(ns) == [i \in 1..Len(ns) |-> << >>]

RemoveExecute ==
    /\ Continues
    /\ \E chassisPath \in Paths, dryRun \in BOOLEAN :
       \E allocations \in IF ~Loadable(doc) \/ ~Exists(doc, chassisPath) \/ ~env.inst
                          THEN { Unread(nodes) } ELSE Allocations(nodes, doc) :
          Finish(RemoveRun(Storage, chassisPath, dryRun, allocations))

\* ------------------------------------------------------------------------
\* chassis:rename
\* ------------------------------------------------------------------------
\* the playbooks of the attachments, each once, in order of first appearance
RECURSIVE Distinct(_)
Distinct(list) ==
    IF Len(list) = 0 THEN << >>
    ELSE LET front == Distinct(SubSeq(list, 1, Len(list) - 1))
         IN IF Contains(front, list[Len(list)]) THEN front
            ELSE front \o << list[Len(list)] >>

AffectedPlaybooks(attachments) ==
    Distinct([k \in 1..Len(attachments) |-> attachments[k].Playbook])

AffectedNodeFiles(ns, chassisPath) ==
    LET hit == NodesForChassis(ns, chassisPath)
    IN [k \in 1..Len(hit) |-> hit[k].file]

\* a dry run that finds its targets by running the two rewrites
RenameDryRunRewriting(st, rec) ==
    LET ua == UpdateAttachments(st.playbooks, rec.path, rec.new)
        un == UpdateAllocations(st.nodes, rec.path, rec.new)
    IN Ends([st EXCEPT !.playbooks = IF st.env.src THEN ua.playbooks ELSE @,
                       !.nodes = IF st.env.inst THEN un.nodes ELSE @],
            [rec EXCEPT !.result = TRUE,
                        !.UpdatedAttachments = IF st.env.src THEN ua.files ELSE << >>,
                        !.UpdatedAllocations = IF st.env.inst THEN un.files ELSE << >>])

\* a dry run that renames and saves the document all the same
RenameDryRunSaving(st, rec) ==
    Ends([st EXCEPT !.doc = Save(Rename(st.doc, rec.path, rec.new).doc)],
         [rec EXCEPT !.result = TRUE])

\* executeDryRun: a registry that cannot be read is logged
RenameDryRun(st, rec) ==
    LET attachments == IF st.env.src THEN LoadAttachments(st.playbooks, rec.path)
                       ELSE << >>
    IN Ends(st, [rec EXCEPT
                    !.result = TRUE,
                    !.attachments = attachments,
                    !.UpdatedAttachments = AffectedPlaybooks(attachments),
                    !.UpdatedAllocations =
                        IF st.env.inst THEN AffectedNodeFiles(st.nodes, rec.path)
                        ELSE << >>])

\* a propagation that gives up at the first rewrite that fails
RenamePropagateAbort(st, rec, d) ==
    LET ua == UpdateAttachments(st.playbooks, rec.path, rec.new)
        un == UpdateAllocations(st.nodes, rec.path, rec.new)
        saved == [st EXCEPT !.doc = Save(d)]
    IN IF ~st.env.src
       THEN Fails(saved, [rec EXCEPT !.writes = << "chassis.yaml" >>], "Propagation")
       ELSE IF ~st.env.inst
       THEN Fails([saved EXCEPT !.playbooks = ua.playbooks],
                  [rec EXCEPT !.writes = << "chassis.yaml" >> \o ua.files,
                              !.UpdatedAttachments = ua.files], "Propagation")
       ELSE Ends([saved EXCEPT !.playbooks = ua.playbooks, !.nodes = un.nodes],
                 [rec EXCEPT !.result = TRUE,
                             !.writes = << "chassis.yaml" >> \o ua.files \o un.files,
                             !.UpdatedAttachments = ua.files,
                             !.UpdatedAllocations = un.files])

\* the document d is saved, then each registry is rewritten; a rewrite that
\* cannot list its directory is a warning
RenamePropagate(st, rec, d) ==
    LET ua == UpdateAttachments(st.playbooks, rec.path, rec.new)
        un == UpdateAllocations(st.nodes, rec.path, rec.new)
        updatedAttachments == IF st.env.src THEN ua.files ELSE << >>
        updatedAllocations == IF st.env.inst THEN un.files ELSE << >>
    IN Ends([st EXCEPT !.doc = Save(d),
                       !.playbooks = IF st.env.src THEN ua.playbooks ELSE @,
                       !.nodes = IF st.env.inst THEN un.nodes ELSE @],
            [rec EXCEPT
                !.result = TRUE,
                !.writes = << "chassis.yaml" >> \o updatedAttachments \o updatedAllocations,
                !.warnings = (IF st.env.src THEN << >> ELSE << "attachments" >>)
                             \o (IF st.env.inst THEN << >> ELSE << "allocations" >>),
                !.UpdatedAttachments = updatedAttachments,
                !.UpdatedAllocations = updatedAllocations])

RenameRun(st, oldPath, newPath, dryRun) ==
    LET rec == Invoked(st, "rename", oldPath, newPath, dryRun)
        r == Rename(st.doc, oldPath, newPath)
    IN IF ~Loadable(st.doc) THEN Fails(st, rec, "DocumentParse")
       ELSE IF ~Exists(st.doc, oldPath) THEN Fails(st, rec, "NotFound")
       ELSE IF Exists(st.doc, newPath) THEN Fails(st, rec, "AlreadyExists")
       ELSE IF dryRun THEN RenameDryRun(st, rec)
       ELSE IF r.err /= "" THEN Fails(st, rec, r.err)
       ELSE RenamePropagate(st, rec, r.doc)

RenameExecute ==
    /\ Continues
    /\ \E oldPath \in Paths, dryRun \in BOOLEAN :
       \E newPath \in NewPaths(oldPath) :
          Finish(RenameRun(Storage, oldPath, newPath, dryRun))

\* ------------------------------------------------------------------------
\* The queries of a loaded document
\* ------------------------------------------------------------------------
Asked(st, op, chassisPath, answer) ==
    LET rec == Invoked(st, op, chassisPath, << >>, FALSE)
    IN IF ~Loadable(st.doc) THEN Fails(st, rec, "DocumentParse")
       ELSE Ends(st, [rec EXCEPT !.result = TRUE, !.answer = answer])

FlattenWithPrefixQuery ==
    /\ Continues
    /\ \E prefix \in Paths :
          Finish(Asked(Storage, "flattenWithPrefix", prefix, FlattenWithPrefix(doc, prefix)))

ChildrenQuery ==
    /\ Continues
    /\ \E chassisPath \in Paths :
          Finish(Asked(Storage, "children", chassisPath, Children(doc, chassisPath)))

AncestorsQuery ==
    /\ Continues
    /\ \E chassisPath \in Paths :
          Finish(Asked(Storage, "ancestors", chassisPath, Ancestors(chassisPath)))

Next ==
    \/ AddExecute
    \/ RemoveExecute
    \/ RenameExecute
    \/ FlattenWithPrefixQuery
    \/ ChildrenQuery
    \/ AncestorsQuery

Spec == Init /\ [][Next]_vars

\* ------------------------------------------------------------------------
\* Properties
\* ------------------------------------------------------------------------
StructuralErrors ==
    { "InvalidPath", "AlreadyExists", "NotFound", "DepthMismatch", "IdenticalPath",
      "AmbiguousRename", "RemovalBlocked" }

\* the invocation left the document and both registries as it found them
Untouched ==
    /\ doc = last.pre.doc
    /\ playbooks = last.pre.playbooks
    /\ nodes = last.pre.nodes

\* the last invocation is a plain remove of a path of a loadable document
PlainRemove ==
    /\ last.op = "remove" /\ ~last.flag
    /\ Loadable(last.pre.doc) /\ Exists(last.pre.doc, last.path)

\* a fact the adapters returned references the removed path or a descendant
Referenced ==
    \/ \E i \in 1..Len(last.allocations) : \E k \in 1..Len(last.allocations[i]) :
          Matches(last.allocations[i][k], last.path)
    \/ \E k \in 1..Len(last.attachments) : Matches(last.attachments[k].Chassis, last.path)

\* C1: a plain remove(P) of an existing path fails and leaves the document
\* unmodified while an allocation's effective path or an attachment's host
\* selector is P or a descendant of P; with no such reference it succeeds and
\* P is no longer in flatten().
C1_RemovalSafety ==
    PlainRemove =>
        IF Referenced
        THEN last.err /= "" /\ doc = last.pre.doc
        ELSE last.err = "" /\ ~Exists(doc, last.path)

\* C2: a dry-run remove or rename leaves the stored document and both
\* registries exactly as they were, whatever blockers or targets it found.
C2_DryRunNoMutation ==
    (last.op \in { "remove", "rename" } /\ last.flag) => Untouched /\ Len(last.writes) = 0

\* a dry-run rename that found targets in both registries
C2_Witness ==
    /\ last.op = "rename" /\ last.flag /\ last.result
    /\ Len(last.UpdatedAttachments) > 0
    /\ Len(last.UpdatedAllocations) > 0

\* the last invocation is a plain rename that got past its checks
Renamed == last.op = "rename" /\ ~last.flag /\ Len(last.writes) > 0

\* C3: a plain rename persists the renamed document before any registry
\* write; a registry rewrite that fails does not undo it, the other registry is
\* still rewritten, and the invocation succeeds, reporting the records it
\* updated and a warning that names the adapter that failed.
C3_RenamePartialSuccess ==
    Renamed =>
        LET ua == UpdateAttachments(last.pre.playbooks, last.path, last.new)
            un == UpdateAllocations(last.pre.nodes, last.path, last.new)
        IN /\ last.writes[1] = "chassis.yaml"
           /\ \A k \in 2..Len(last.writes) : last.writes[k] /= "chassis.yaml"
           /\ doc = Save(Rename(last.pre.doc, last.path, last.new).doc)
           /\ last.err = "" /\ last.result
           /\ last.writes = << "chassis.yaml" >> \o last.UpdatedAttachments
                               \o last.UpdatedAllocations
           /\ IF last.pre.env.src
              THEN playbooks = ua.playbooks /\ last.UpdatedAttachments = ua.files
                   /\ ~Contains(last.warnings, "attachments")
              ELSE playbooks = last.pre.playbooks /\ last.UpdatedAttachments = << >>
                   /\ Contains(last.warnings, "attachments")
           /\ IF last.pre.env.inst
              THEN nodes = un.nodes /\ last.UpdatedAllocations = un.files
                   /\ ~Contains(last.warnings, "allocations")
              ELSE nodes = last.pre.nodes /\ last.UpdatedAllocations = << >>
                   /\ Contains(last.warnings, "allocations")

\* a rename whose attachment rewrite failed and whose allocation rewrite
\* updated a node file
C3_Witness ==
    /\ Renamed /\ ~last.pre.env.src
    /\ Contains(last.warnings, "attachments")
    /\ Len(last.UpdatedAllocations) > 0
    /\ doc /= last.pre.doc

\* C4: an add, remove or rename that ends with a structural validation error
\* has written nothing: document and registries are as before the call.
C4_NoWriteOnStructuralError ==
    (last.err \in StructuralErrors) => Untouched /\ Len(last.writes) = 0

\* a plain remove that was blocked
C4_Witness ==
    /\ last.op = "remove" /\ ~last.flag /\ last.err = "RemovalBlocked"
    /\ Referenced

\* the last invocation is a rename whose old path exists and whose new path
\* does not
RenameRequest ==
    /\ last.op = "rename"
    /\ Loadable(last.pre.doc)
    /\ Exists(last.pre.doc, last.path)
    /\ ~Exists(last.pre.doc, last.new)

\* C5: in dry-run mode as in normal mode, a rename of paths with different
\* segment counts fails with DepthMismatchError and a rename of paths that
\* differ at more than one position fails with AmbiguousRenameError; neither
\* yields a dry-run report.
C5_RenameChecksFirst ==
    RenameRequest =>
        LET oldParts == Split(last.path)
            newParts == Split(last.new)
        IN /\ Len(oldParts) /= Len(newParts) => last.err = "DepthMismatch"
           /\ (/\ Len(oldParts) = Len(newParts)
               /\ Cardinality(DiffPositions(oldParts, newParts)) > 1)
                 => last.err = "AmbiguousRename"

\* C6: rename(P, P) fails with IdenticalPathError, for every P, and leaves the
\* document unchanged.
C6_IdenticalPath ==
    (/\ last.op = "rename" /\ last.path = last.new
     /\ Loadable(last.pre.doc) /\ Exists(last.pre.doc, last.path)) =>
        last.err = "IdenticalPath" /\ doc = last.pre.doc

\* C7: after a successful rename(old, new), flatten() is the previous
\* flatten() with every entry that is old or a descendant of old replaced, in
\* place, by the corresponding path under new, and every other entry unchanged.
C7_RenameFlatten ==
    Renamed =>
        Flatten(doc) = [i \in 1..Len(Flatten(last.pre.doc)) |->
                           Rewritten(Flatten(last.pre.doc)[i], last.path, last.new)]

\* C8: rename(P, Q) followed by rename(Q, P) restores the original document.
C8_RenameRoundTrip ==
    (/\ prev.op = "rename" /\ ~prev.flag /\ Len(prev.writes) > 0
     /\ last.op = "rename" /\ ~last.flag
     /\ last.path = prev.new /\ last.new = prev.path
     /\ Loadable(last.pre.doc))
        => last.err = "" /\ doc = prev.pre.doc

\* the ancestors of a path, root first, followed by the path
Chain(chassisPath) ==
    [i \in 1..Len(Split(chassisPath)) |-> Join(SubSeq(Split(chassisPath), 1, i))]

\* the last invocation is an add of a valid path to a document without paths
AddToEmpty ==
    /\ last.op = "add"
    /\ Loadable(last.pre.doc) /\ Len(Flatten(last.pre.doc)) = 0
    /\ ValidatePath(last.path)

\* C9: add(P) of a valid path of any depth to an empty document succeeds,
\* exists(P) then holds, and flatten() is exactly P's ancestors followed by P,
\* root first.
C9_AddToEmpty ==
    AddToEmpty =>
        /\ last.err = "" /\ last.result
        /\ Exists(doc, last.path)
        /\ Flatten(doc) = Chain(last.path)

\* an add of a five-segment path to an empty document
C9_Witness == AddToEmpty /\ Len(Split(last.path)) = 5 /\ last.err = ""

\* the last invocation is a plain add(P) that directly follows a successful add(P)
AddedTwice ==
    /\ prev.op = "add" /\ prev.err = "" /\ Len(prev.writes) > 0
    /\ last.op = "add" /\ ~last.flag
    /\ last.path = prev.path

\* C10: add(P) directly after a successful add(P) fails with
\* AlreadyExistsError and leaves the document as the first call left it.
C10_AddTwice ==
    AddedTwice => last.err = "AlreadyExists" /\ Untouched /\ Len(last.writes) = 0

\* a second add of a path whose first add created intermediate groups
C10_Witness == AddedTwice /\ last.err = "AlreadyExists" /\ Len(Split(last.path)) > 3

\* ------------------------------------------------------------------------
\* Properties of add and remove on the document
\* ------------------------------------------------------------------------
\* the path without its last segment, the empty path for a root
ParentOf(chassisPath) ==
    Join(SubSeq(Split(chassisPath), 1, Len(Split(chassisPath)) - 1))

Depth(chassisPath) == Len(Split(chassisPath))

Members(list) == { list[i] : i \in 1..Len(list) }

Occurrences(list, x) == Cardinality({ i \in 1..Len(list) : list[i] = x })

\* the last invocation is a plain remove(P) of an unreferenced path, directly
\* after a successful add(P)
AddedThenRemoved ==
    /\ prev.op = "add" /\ prev.err = "" /\ Len(prev.writes) > 0
    /\ last.op = "remove" /\ ~last.flag
    /\ last.path = prev.path
    /\ ~Referenced

Added == last.op = "add" /\ last.err = "" /\ Len(last.writes) > 0

\* C12: a successful add(P) only appends: the new paths of flatten() are P and
\* its ancestors that were missing, each is the last child of its parent, and
\* the paths that existed before are all there in the same relative order.
C12_AddAppends ==
    Added =>
        LET F == Flatten(last.pre.doc)
            G == Flatten(doc)
            new == { i \in 1..Len(G) : G[i] \notin Members(F) }
        IN /\ { G[i] : i \in new } = Members(Chain(last.path)) \ Members(F)
           /\ \A i \in new : Occurrences(G, G[i]) = 1
           /\ \A i \in new : \A j \in (i + 1)..Len(G) :
                 Depth(G[j]) /= Depth(G[i]) \/ ParentOf(G[j]) /= ParentOf(G[i])
           /\ SelectSeq(G, LAMBDA x : x \in Members(F)) = F

\* the last invocation is a successful add through a childless nested entry
\* named like a segment of the path
ThroughMarker(A) ==
    /\ Added
    /\ Depth(A) > 2
    /\ HasPrefix(last.path, A \o << Dot >>)
    /\ Exists(last.pre.doc, A)
    /\ FlattenWithPrefix(last.pre.doc, A) = << A >>

\* the position of the first entry x in a list, 0 if none
Position(list, x) ==
    IF x \in Members(list)
    THEN CHOOSE i \in 1..Len(list) : list[i] = x /\ \A j \in 1..(i - 1) : list[j] /= x
    ELSE 0

\* C13: an add through an existing bare marker named like an intermediate
\* segment of P turns that marker into a group at its place: no second entry
\* of that name appears, its position among the old paths is kept, and the
\* rest of P is below it.
C13_MarkerConversion ==
    \A A \in Paths :
        ThroughMarker(A) =>
            LET F == Flatten(last.pre.doc)
                G == Flatten(doc)
            IN /\ Occurrences(G, A) = Occurrences(F, A)
               /\ Position(G, A) = Position(F, A)
               /\ \A k \in 1..Len(G) :
                     HasPrefix(G[k], A \o << Dot >>) => k > Position(G, A)
               /\ G[Position(G, A) + 1] = Join(SubSeq(Split(last.path), 1, Depth(A) + 1))
               /\ Exists(doc, last.path)

\* the last invocation is a plain remove that succeeded and saved
Removed == last.op = "remove" /\ ~last.flag /\ last.err = "" /\ Len(last.writes) > 0

\* the entries of a flatten() list directly below a path
ChildrenIn(list, parent) ==
    SelectSeq(list, LAMBDA x : Depth(x) = Depth(parent) + 1 /\ ParentOf(x) = parent)

\* the removed path was the only child of a nested group
LastChildRemoved ==
    /\ Removed
    /\ Depth(last.path) > 3
    /\ Members(ChildrenIn(Flatten(last.pre.doc), ParentOf(last.path))) = { last.path }
    /\ Occurrences(Flatten(last.pre.doc), last.path) = 1

\* C14: a remove(P) that takes the last child of an intermediate group removes
\* the emptied group too: no group is left with an empty child list.
C14_NoDanglingGroup ==
    LastChildRemoved => ~Exists(doc, ParentOf(last.path))

\* no sequence of the tree holds a mapping item without a key
RECURSIVE NoEmptyItems(_)
NoEmptyItems(n) ==
    /\ n.Kind = SequenceNode =>
          \A i \in 1..Len(n.Content) :
              n.Content[i].Kind = MappingNode => Len(n.Content[i].Content) > 0
    /\ \A i \in 1..Len(n.Content) : NoEmptyItems(n.Content[i])

\* C14, amended: a remove(P) leaves no empty mapping item behind: a group
\* that was the only key of its sequence item goes with its item.  The parent
\* of P stays, with an empty child list when P was its last child.
C14_NoEmptyItemParentKept ==
    Removed =>
        /\ (\A i \in 1..Len(last.pre.doc) : NoEmptyItems(last.pre.doc[i]))
              => \A i \in 1..Len(doc) : NoEmptyItems(doc[i])
        /\ Depth(last.path) > 1 => Exists(doc, ParentOf(last.path))
        /\ LastChildRemoved =>
              \A x \in Members(Flatten(doc)) :
                  ~HasPrefix(x, ParentOf(last.path) \o << Dot >>)

\* the only child of a nested group was removed and the group is still there
C14_Witness ==
    /\ LastChildRemoved
    /\ Exists(doc, ParentOf(last.path))
    /\ Len(Flatten(doc)) = Len(Flatten(last.pre.doc)) - 1

\* C15: after a successful remove(P) at any depth, flatten() is the previous
\* flatten() without P and the descendants of P; every other path is there in
\* the same relative order.
C15_RemoveFlatten ==
    Removed =>
        Flatten(doc) = SelectSeq(Flatten(last.pre.doc),
                                 LAMBDA x : ~Matches(x, last.path))

\* ------------------------------------------------------------------------
\* Properties of the coordinators and the registries
\* ------------------------------------------------------------------------
\* the node files with an effective path at or below the removed path, and
\* the components attached at or below it, among the facts the adapters
\* returned to the last remove
BlockingNodes ==
    { last.pre.nodes[i].file : i \in
        { i \in 1..Len(last.allocations) :
            \E k \in 1..Len(last.allocations[i]) :
                Matches(last.allocations[i][k], last.path) } }

BlockingComponents ==
    { last.attachments[k].Component : k \in
        { k \in 1..Len(last.attachments) :
            Matches(last.attachments[k].Chassis, last.path) } }

\* C16: a plain remove(P) that is blocked reports both sets of blockers: with
\* blocking allocations and blocking attachments, its outcome carries both.
C16_BlockedReportsBoth ==
    (last.op = "remove" /\ ~last.flag /\ last.err = "RemovalBlocked") =>
        /\ Members(last.printedNodes) = BlockingNodes
        /\ Members(last.printedComponents) = BlockingComponents

\* C17: a dry-run remove(P) of an existing path succeeds, blockers or not, and
\* its result holds all blocking allocations and all blocking attachments; on
\* a path that does not exist it fails with NotFoundError.
C17_DryRunRemoveReports ==
    (last.op = "remove" /\ last.flag /\ Loadable(last.pre.doc)) =>
        IF Exists(last.pre.doc, last.path)
        THEN /\ last.err = "" /\ last.result
             /\ Members(last.AllocatedNodes) = BlockingNodes
             /\ Members(last.AttachedComponents) = BlockingComponents
             /\ last.pre.env.src =>
                   last.attachments = LoadAttachments(last.pre.playbooks, last.path)
        ELSE last.err = "NotFound" /\ ~last.result

\* a dry-run remove that found blockers of both kinds
C17_Witness ==
    /\ last.op = "remove" /\ last.flag /\ last.result
    /\ Len(last.AllocatedNodes) > 0
    /\ Len(last.AttachedComponents) > 0

\* C18: a forced add(P) of a path that exists succeeds without changing or
\* rewriting the stored document; a forced add of a path that does not exist
\* does what the plain add does.
C18_ForceAdd ==
    (last.op = "add" /\ last.flag /\ Loadable(last.pre.doc)) =>
        IF Exists(last.pre.doc, last.path)
        THEN last.err = "" /\ last.result /\ Untouched /\ Len(last.writes) = 0
        ELSE LET r == Add(last.pre.doc, last.path)
             IN /\ last.err = r.err
                /\ last.result = (r.err = "")
                /\ doc = IF r.err = "" THEN Save(r.doc) ELSE last.pre.doc
                /\ last.writes = IF r.err = "" THEN << "chassis.yaml" >> ELSE << >>

\* a forced add of a nested path that exists
C18_Witness ==
    /\ last.op = "add" /\ last.flag /\ last.result
    /\ Exists(last.pre.doc, last.path)
    /\ Depth(last.path) > 2

\* the last invocation changed a registry or wrote one of its files
RegistryWritten ==
    /\ last.op /= "none"
    /\ \/ playbooks /= last.pre.playbooks
       \/ nodes /= last.pre.nodes
       \/ \E k \in 1..Len(last.writes) : last.writes[k] /= "chassis.yaml"

\* C19: add and remove never modify the attachment or the allocation
\* registry; only a rename that is not a dry run writes to a registry, and only
\* after it has persisted the document.
C19_RegistryWriters ==
    /\ last.op \in { "add", "remove" } => ~RegistryWritten
    /\ RegistryWritten =>
          /\ last.op = "rename" /\ ~last.flag
          /\ last.writes[1] = "chassis.yaml"
          /\ doc = Save(Rename(last.pre.doc, last.path, last.new).doc)

\* a remove that succeeded next to registries a rename has just rewritten
C19_Witness ==
    /\ Removed
    /\ Len(playbooks) > 0 /\ Len(nodes) > 0
    /\ prev.op = "rename" /\ Len(prev.writes) > 2

\* the reference r after rewriteReferences(old, new)
UnderNew(r, old, new) ==
    IF r = old THEN new
    ELSE IF Len(r) > Len(old) /\ SubSeq(r, 1, Len(old) + 1) = old \o << "." >>
    THEN new \o SubSeq(r, Len(old) + 1, Len(r))
    ELSE r

\* C20: the rewrite of either registry replaces every reference equal to
\* oldPath by newPath and every reference oldPath.rest by newPath.rest, leaves
\* the others as they are, also those that only share a string prefix with
\* oldPath, and returns exactly the records in which a reference changed.
C20_RewriteReferences ==
    Renamed =>
        /\ last.pre.env.src =>
              /\ Len(playbooks) = Len(last.pre.playbooks)
              /\ \A b \in 1..Len(playbooks) :
                    LET was == last.pre.playbooks[b]
                    IN /\ playbooks[b].file = was.file
                       /\ Len(playbooks[b].plays) = Len(was.plays)
                       /\ \A k \in 1..Len(was.plays) :
                             /\ playbooks[b].plays[k].roles = was.plays[k].roles
                             /\ playbooks[b].plays[k].hosts =
                                   UnderNew(was.plays[k].hosts, last.path, last.new)
                       /\ (was.file \in Members(last.UpdatedAttachments))
                             = (playbooks[b] /= was)
              /\ Members(last.UpdatedAttachments)
                    \subseteq { last.pre.playbooks[b].file : b \in 1..Len(playbooks) }
        /\ last.pre.env.inst =>
              /\ Len(nodes) = Len(last.pre.nodes)
              /\ \A i \in 1..Len(nodes) :
                    LET was == last.pre.nodes[i]
                    IN /\ nodes[i].file = was.file
                       /\ Len(nodes[i].chassis) = Len(was.chassis)
                       /\ \A k \in 1..Len(was.chassis) :
                             nodes[i].chassis[k] =
                                 UnderNew(was.chassis[k], last.path, last.new)
                       /\ (was.file \in Members(last.UpdatedAllocations))
                             = (nodes[i] /= was)
              /\ Members(last.UpdatedAllocations)
                    \subseteq { last.pre.nodes[i].file : i \in 1..Len(nodes) }

\* a rename that rewrote a reference equal to oldPath and one below it, beside
\* a reference that starts with oldPath without lying below it and a node file
\* that holds no reference to it
C20_Witness ==
    /\ Renamed /\ last.pre.env.src /\ last.pre.env.inst
    /\ \E b \in 1..Len(playbooks) : \E k, m \in 1..Len(playbooks[b].plays) :
          /\ last.pre.playbooks[b].plays[k].hosts = last.path
          /\ playbooks[b].plays[k].hosts = last.new
          /\ HasPrefix(playbooks[b].plays[m].hosts, last.path)
          /\ playbooks[b].plays[m] = last.pre.playbooks[b].plays[m]
    /\ \E i, j \in 1..Len(nodes) :
          /\ nodes[i] /= last.pre.nodes[i]
          /\ \E k \in 1..Len(nodes[i].chassis) :
                HasPrefix(last.pre.nodes[i].chassis[k], last.path \o << "." >>)
          /\ nodes[j] = last.pre.nodes[j]
    /\ Len(last.UpdatedAllocations) = 1

\* ------------------------------------------------------------------------
\* Properties: what the registries and the queries answer
\* ------------------------------------------------------------------------
\* the files of the registry records that differ between two registries
Touched(before, after) ==
    { before[i].file : i \in { k \in 1..Len(before) : before[k] /= after[k] } }

\* C21: the attachment and allocation records a dry-run rename reports as to
\* be touched are exactly the records the rename run without dry-run on the
\* same storage modifies, a play without roles included.
C21_DryRunRenameReports ==
    Renamed =>
        LET dry == RenameRun(last.pre, last.path, last.new, TRUE).rec
        IN /\ Members(dry.UpdatedAttachments) = Touched(last.pre.playbooks, playbooks)
           /\ Members(dry.UpdatedAllocations) = Touched(last.pre.nodes, nodes)

\* the storage of a remove as it looks to an invocation that finds nothing in
\* the registries it cannot read; a directory that does not exist is an empty
\* registry (LoadAttachments and the node loader return no facts and no error)
Blind(st) ==
    [st EXCEPT !.playbooks = IF st.env.src THEN @ ELSE NoPlaybooks,
               !.nodes = IF st.env.inst THEN @ ELSE NoNodes,
               !.env = Readable]

RemoveQueried ==
    last.op = "remove" /\ last.err \notin { "DocumentParse", "NotFound" }

\* C22: a registry that cannot be read does not abort remove: nothing but a
\* log entry comes of it, the registry contributes no blockers, and the remove
\* ends as it ends on the same storage with that registry empty (which is
\* what the adapters return for a directory that does not exist).
C22_UnreadableRegistry ==
    RemoveQueried =>
        LET blind == Blind(last.pre)
            end == RemoveRun(blind, last.path, last.flag,
                             IF last.pre.env.inst THEN last.allocations ELSE << >>)
        IN /\ last.err \in { "", "RemovalBlocked", "RemoveFailed", "InvalidPath" }
           /\ ~last.pre.env.src =>
                 /\ last.attachments = << >>
                 /\ last.AttachedComponents = << >>
                 /\ last.printedComponents = << >>
           /\ ~last.pre.env.inst =>
                 /\ last.AllocatedNodes = << >>
                 /\ last.printedNodes = << >>
           /\ end.rec.err = last.err
           /\ end.rec.result = last.result
           /\ end.rec.writes = last.writes
           /\ end.rec.printedNodes = last.printedNodes
           /\ end.rec.printedComponents = last.printedComponents
           /\ end.st.doc = doc

\* a remove went through although a node file it could not read holds the path
C22_Witness ==
    /\ RemoveQueried
    /\ ~last.flag
    /\ ~last.pre.env.inst
    /\ Len(NodesForChassis(last.pre.nodes, last.path)) > 0
    /\ last.err = ""
    /\ ~Exists(doc, last.path)

RECURSIVE Filtered(_, _)
\* the entries of a list that equal the prefix or start with prefix + ".",
\* taken front to back
Filtered(list, prefix) ==
    IF Len(list) = 0 THEN << >>
    ELSE LET path == Head(list)
             rest == Filtered(Tail(list), prefix)
         IN IF path = prefix
               \/ (Len(path) > Len(prefix)
                   /\ \A i \in 1..Len(prefix) : path[i] = prefix[i]
                   /\ path[Len(prefix) + 1] = Dot)
            THEN << path >> \o rest
            ELSE rest

\* C23: flattenWithPrefix(prefix) is flatten() filtered, in the same order, to
\* the entries that equal prefix or start with prefix + "."; with the empty
\* prefix it is flatten() itself.
C23_FlattenWithPrefix ==
    (last.op = "flattenWithPrefix" /\ last.err = "") =>
        LET F == Flatten(doc)
        IN /\ last.path = << >> => last.answer = F
           /\ last.path /= << >> => last.answer = Filtered(F, last.path)

\* the prefix is the beginning of the name of a path that is not below it,
\* and the answer leaves part of the document out
C23_Witness ==
    /\ last.op = "flattenWithPrefix"
    /\ last.err = ""
    /\ Len(last.answer) > 0
    /\ \E path \in Members(Flatten(doc)) :
          /\ HasPrefix(path, last.path)
          /\ ~Contains(last.answer, path)

\* the positions in flatten() of the entries whose parent is the path
ChildPositions(F, chassisPath) ==
    { i \in 1..Len(F) : ParentOf(F[i]) = chassisPath
                        /\ Depth(F[i]) = Depth(chassisPath) + 1 }

\* the entries of F at the positions at, from position i on, in order
RECURSIVE Picked(_, _, _)
Picked(F, at, i) ==
    IF i > Len(F) THEN << >>
    ELSE (IF i \in at THEN << F[i] >> ELSE << >>) \o Picked(F, at, i + 1)

\* C24: children(path) is, in document order, exactly the entries of flatten()
\* one segment deeper than path whose parent is path: not path itself, no
\* deeper descendant, no path that only shares the beginning of a name.
C24_Children ==
    (last.op = "children" /\ last.err = "") =>
        LET F == Flatten(doc)
        IN /\ last.answer = Picked(F, ChildPositions(F, last.path), 1)
           /\ ~Contains(last.answer, last.path)
           /\ \A k \in 1..Len(last.answer) :
                 Split(last.answer[k]) = Split(last.path) \o << Split(last.answer[k])[Depth(last.answer[k])] >>

\* the path has children, deeper descendants and a sibling whose name begins
\* with its own
C24_Witness ==
    /\ last.op = "children"
    /\ last.err = ""
    /\ Len(last.answer) > 0
    /\ LET F == Flatten(doc)
       IN /\ \E path \in Members(F) : Depth(path) > Depth(last.path) + 1
                                       /\ HasPrefix(path, last.path \o << Dot >>)
          /\ \E path \in Members(F) : HasPrefix(path, last.path)
                                       /\ path /= last.path
                                       /\ ~HasPrefix(path, last.path \o << Dot >>)

\* C25: parent(path) is path without its last segment, and the empty string
\* for a path of one segment; ancestors(path) are the strict ancestors of path
\* nearest first, each the parent of the one before, down to the root segment,
\* and none for a path of one segment.
C25_ParentAncestors ==
    (last.op = "ancestors" /\ last.err = "") =>
        LET parts == Split(last.path)
            n == Len(parts)
        IN /\ Parent(last.path) = IF n = 1 THEN << >> ELSE Join(SubSeq(parts, 1, n - 1))
           /\ Len(last.answer) = n - 1
           /\ \A i \in 1..(n - 1) : last.answer[i] = Join(SubSeq(parts, 1, n - i))
           /\ \A i \in 1..(n - 1) :
                 last.answer[i] = Parent(IF i = 1 THEN last.path ELSE last.answer[i - 1])
           /\ n > 1 => last.answer[n - 1] = parts[1]

\* a path of three segments or more was asked for
C25_Witness ==
    /\ last.op = "ancestors"
    /\ last.err = ""
    /\ Depth(last.path) >= 3
    /\ Len(last.answer) >= 2

\* a path of one segment was asked for
C25_WitnessRoot ==
    /\ last.op = "ancestors"
    /\ last.err = ""
    /\ last.path = sp
    /\ last.answer = << >>

\* ------------------------------------------------------------------------
\* Properties: what every session keeps
\* ------------------------------------------------------------------------
NoDuplicatePaths(d) ==
    LET F == Flatten(d)
    IN Cardinality(Members(F)) = Len(F)

\* C26: every document a session starts from has no path twice in flatten(),
\* and no sequence of adds, removes and renames run by the commands leaves a
\* document that has one twice.
C26_NoDuplicatePaths == NoDuplicatePaths(doc)

\* the paths the registries of a storage refer to: the hosts of every play
\* that attaches a component, and every chassis entry of a node file
Selected(playbook) ==
    { playbook.plays[k].hosts :
          k \in { k \in 1..Len(playbook.plays) :
                     \E r \in Members(playbook.plays[k].roles) : Len(r) > 0 } }

References(st) ==
    (UNION { Selected(st.playbooks[b]) : b \in 1..Len(st.playbooks) })
    \cup (UNION { Members(st.nodes[i].chassis) : i \in 1..Len(st.nodes) })

Integrity(st) == \A r \in References(st) : Exists(st.doc, r)

\* C27: when every reference of the registries is to a path of the document,
\* an add, a remove or a rename that goes through with both registries read
\* and no registry rewrite failing leaves every reference on a path of the
\* document.
C27_ReferentialIntegrity ==
    (/\ last.op \in { "add", "remove", "rename" }
     /\ last.err = ""
     /\ ~last.flag
     /\ last.warnings = << >>
     /\ last.pre.env = Readable
     /\ Integrity(last.pre))
        => Integrity(Storage)

\* ------------------------------------------------------------------------
\* Properties: remove and the parsed data
\* ------------------------------------------------------------------------
\* the last invocation is a plain remove that got as far as Chassis.Remove
RemoveCalled ==
    /\ last.op = "remove"
    /\ ~last.flag
    /\ last.err \notin { "DocumentParse", "NotFound", "RemovalBlocked" }

\* C28: Remove of a path that exists in the document just loaded goes through,
\* whatever encodes the path: a marker, a group with children, a group with an
\* empty or null value, a leaf that is not a string.
C28_RemoveOfExisting ==
    RemoveCalled => (last.err = "" /\ Len(last.writes) > 0)

\* the last invocation is a plain remove that got as far as the registries
RemoveDecided ==
    /\ last.op = "remove"
    /\ ~last.flag
    /\ last.err \notin { "DocumentParse", "NotFound" }

\* C29: on the same storage, the dry-run remove reports the blocker sets the
\* plain remove computes, and it reports two empty sets exactly when the plain
\* remove goes through and the path is gone.
C29_DryRunRemovePredicts ==
    RemoveDecided =>
        LET dry == RemoveRun(last.pre, last.path, TRUE, last.allocations).rec
        IN /\ dry.AllocatedNodes = Allocated(last.pre.nodes, last.allocations, last.path)
           /\ dry.AttachedComponents = Components(last.attachments)
           /\ (dry.AllocatedNodes = << >> /\ dry.AttachedComponents = << >>)
                 <=> (last.err = "" /\ Len(last.writes) > 0 /\ ~Exists(doc, last.path))

\* the paths the items of a data list stand for, below prefix: a string or any
\* other leaf by its text, every key of a map, and what is listed under a key
RECURSIVE ListPaths(_, _)
ListPaths(prefix, l) ==
    UNION { LET c == l[i]
            IN IF c.t \in { "str", "raw" } THEN { Dotted(prefix, c.s) }
               ELSE IF c.t = "map"
               THEN UNION { { Dotted(prefix, k) }
                            \cup (IF c.m[k].t = "list"
                                  THEN ListPaths(Dotted(prefix, k), c.m[k].l)
                                  ELSE { }) : k \in DOMAIN c.m }
               ELSE { } : i \in 1..Len(l) }

\* the paths derivable from the data map
DataPaths(data) ==
    IF data.t /= "map" THEN { }
    ELSE UNION { { root }
                 \cup (IF data.m[root].t /= "map" THEN { }
                       ELSE UNION { { Dotted(root, layer) }
                                    \cup ListPaths(Dotted(root, layer),
                                                   DataLayer(data, root, layer)) :
                                    layer \in DOMAIN data.m[root].m }) :
                 root \in DOMAIN data.m }

\* the data map of a loaded document after the call recorded in rec
DataAfter(data, rec) ==
    CASE rec.op = "add" -> AddData(data, Split(rec.path))
      [] rec.op = "remove" -> RemoveData(data, Split(rec.path))
      [] rec.op = "rename" ->
            updateDataForRename(data, Split(rec.path), Split(rec.new),
                                (CHOOSE i \in DiffPositions(Split(rec.path), Split(rec.new)) :
                                    TRUE) - 1)
      [] OTHER -> data

\* the last invocation changed the document
Changed == last.op \in { "add", "remove", "rename" } /\ last.err = "" /\ Len(last.writes) > 0

\* the data map of the document loaded before the last call, and before the
\* call that preceded it when there was one, after these calls
DataNow ==
    IF prev.op = "none" THEN DataAfter(ParseData(last.pre.doc), last)
    ELSE DataAfter(DataAfter(ParseData(prev.pre.doc), prev), last)

\* C30: after successful add, remove and rename calls on one loaded document,
\* the paths derivable from the data map are the paths of flatten() of the
\* node tree.
C30_DataInStep ==
    Changed => DataPaths(DataNow) = Members(Flatten(doc))

====
